---- MODULE Spec2Model ----
(***************************************************************************)
(* Ownership, error propagation and locking of the libsignal-protocol      *)
(* wrapper: Context / ContextInner, StoreContext, SessionBuilder, the key  *)
(* handles produced through a Context, and the lock callbacks.             *)
(*                                                                         *)
(* Native objects are slots: a slot is "none" until the engine allocates   *)
(* it, "live" afterwards and "destroyed"/"freed" once its native           *)
(* destructor ran; `destroys`/`frees` counts the destructor calls.         *)
(* An Rc<T> is a strong count `rc` on the slot plus the holders' fields    *)
(* (0 = holds nothing).                                                    *)
(***************************************************************************)
EXTENDS Integers, Sequences, FiniteSets

VARIABLES contexts, stores, builders, keys, last, mux, threads,
          preKeyList, mem, pk, teardown

(* The pre-key list being traversed, the addresses registered with the    *)
(* engine, and the last PublicKey comparison.                              *)
aux == <<preKeyList, mem, pk>>

(* teardown: the native calls and field drops of the latest drop, in order. *)

vars == <<contexts, stores, builders, keys, last, mux, threads, aux, teardown>>

(* ------------------------------ bounds -------------------------------- *)
MaxCtx == 2
MaxStore == 1
MaxBuilder == 1
MaxKey == 2
MaxClones == 1
NumThreads == 3
MaxTime == 1
MaxDepth == 2
MaxCount == 4
MaxMoves == 2
KeyLen == 2
MaxByte == 2

CtxIds == 1..MaxCtx
StoreIds == 1..MaxStore
BuilderIds == 1..MaxBuilder
KeyIds == 1..MaxKey
ThreadIds == 1..NumThreads

(* Return codes the native engine may hand back: 0 is success, negative   *)
(* values are SG_ERR_* codes, positive values other codes.                 *)
ReturnCodes == {-22, -12, 0, 1}
VerifyCodes == {-1000, -22, -12, -1, 0, 1, 2}
(* The codes drawn in the ownership specification: every call succeeds,   *)
(* or exactly one of the n calls fails (the calls after a failing one are  *)
(* never made, so this covers every path).                                 *)
LifecycleCodes == {-12, 0}
OneFailure(n) == {[i \in 1..n |-> IF i = k THEN -12 ELSE 0] : k \in 0..n}
Pointers == {"null", "ptr"}
Timestamps == (0 - MaxTime)..MaxTime
(* start: u32, count: u32. The starts drawn keep start + count - 1        *)
(* representable (the model checker's integers end at 2^31 - 1): the       *)
(* wrapper does no arithmetic on them, and what the engine does past the   *)
(* largest id is not decided here.                                         *)
Starts == {0, 1, 100, 65535, 16777215, 2147483647 - MaxCount}
Counts == 0..MaxCount

(* --------------------------- result values ---------------------------- *)
(* Result<T, Error>: `value` names the T returned, `raw` the pointer the   *)
(* returned handle wraps ("none": no handle was constructed).              *)
Ok(v) == [tag |-> "Ok", err |-> "none", code |-> 0, value |-> v, raw |-> "none"]
OkHandle(v, p) == [tag |-> "Ok", err |-> "none", code |-> 0, value |-> v, raw |-> p]
ErrInternal(c) ==
    [tag |-> "Err", err |-> "InternalError", code |-> c, value |-> "none", raw |-> "none"]
ErrMsg(m, c) ==
    [tag |-> "Err", err |-> m, code |-> c, value |-> "none", raw |-> "none"]

(* errors.rs: i32::into_result, any non-zero code is an InternalError.     *)
into_result(code) == IF code = 0 THEN Ok("unit") ELSE ErrInternal(code)

(* errors.rs: InternalError::from_error_code, Some for recognized codes.   *)
from_error_code(code) == code \in {-1000, -22, -12}

(* What the engine leaves in an output pointer: untouched (null) unless    *)
(* the call reports success.                                               *)
NativeOut(code, out) == IF code = 0 THEN out ELSE "null"

(* ------------------- ContextInner::new / Context::new ----------------- *)
(* codes = <<signal_context_create, set_crypto_provider,                   *)
(*           set_locking_functions>>: what each call returns if made.      *)
ContextInner_new(codes) ==
    IF into_result(codes[1]).tag = "Err"
    THEN [res |-> into_result(codes[1]), created |-> FALSE,
          calls |-> <<"signal_context_create">>]
    ELSE IF into_result(codes[2]).tag = "Err"
    THEN [res |-> into_result(codes[2]), created |-> TRUE,
          calls |-> <<"signal_context_create", "set_crypto_provider">>]
    ELSE IF into_result(codes[3]).tag = "Err"
    THEN [res |-> into_result(codes[3]), created |-> TRUE,
          calls |-> <<"signal_context_create", "set_crypto_provider",
                      "set_locking_functions">>]
    ELSE [res |-> Ok("ContextInner"), created |-> TRUE,
          calls |-> <<"signal_context_create", "set_crypto_provider",
                      "set_locking_functions">>]

(* impl Drop for ContextInner: signal_context_destroy(self.raw()).         *)
ContextInner_drop(r) == [r EXCEPT !.native = "destroyed", !.destroys = @ + 1]

(* Dropping one Rc<ContextInner>: the count goes down, the last one runs   *)
(* ContextInner::drop.                                                     *)
ReleaseCtx(cs, c) ==
    IF c = 0 THEN cs
    ELSE IF cs[c].rc = 1
         THEN [cs EXCEPT ![c] = ContextInner_drop([@ EXCEPT !.rc = 0])]
         ELSE [cs EXCEPT ![c].rc = @ - 1]

(* Rc::clone(&ctx.0) *)
CloneCtx(cs, c) == IF c = 0 THEN cs ELSE [cs EXCEPT ![c].rc = @ + 1]

(* ---------------------------- StoreContext ---------------------------- *)
(* store_context.rs: impl Drop for StoreContextInner.                      *)
StoreContextInner_drop(r) == [r EXCEPT !.native = "destroyed", !.destroys = @ + 1]

(* Dropping one Rc<StoreContextInner>; the last one destroys the native    *)
(* store context and then drops the inner's Rc<ContextInner>.              *)
ReleaseStore(ss, cs, s) ==
    IF s = 0 THEN [stores |-> ss, contexts |-> cs]
    ELSE IF ss[s].rc = 1
         THEN [stores |-> [ss EXCEPT ![s] =
                              [StoreContextInner_drop(@) EXCEPT !.rc = 0, !.ctx = 0,
                                                               !.fromCtx = 0]],
               contexts |-> ReleaseCtx(cs, ss[s].ctx)]
         ELSE [stores |-> [ss EXCEPT ![s].rc = @ - 1], contexts |-> cs]

(* ------------------------------ teardown ----------------------------- *)
Event(op, b, s, c) == [op |-> op, b |-> b, s |-> s, c |-> c]

(* A ContextInner that gives up its State before the engine context.      *)
ContextInner_teardown_StateFirst(c) ==
    << Event("drop state", 0, 0, c),
       Event("signal_context_destroy", 0, 0, c),
       Event("drop crypto", 0, 0, c) >>

(* What the last Rc<ContextInner> going away does, in order: Drop::drop    *)
(* calls signal_context_destroy, then the fields are dropped in the order  *)
(* they are declared: raw, crypto, state.                                  *)
ContextInner_teardown(c) ==
    << Event("signal_context_destroy", 0, 0, c),
       Event("drop crypto", 0, 0, c),
       Event("drop state", 0, 0, c) >>

ReleaseCtx_teardown(cs, c) ==
    IF c # 0 /\ cs[c].rc = 1 THEN ContextInner_teardown(c) ELSE <<>>

(* The last Rc<StoreContextInner>: the native store context is destroyed,  *)
(* then the inner's Rc<ContextInner> is dropped.                           *)
ReleaseStore_teardown(ss, cs, s) ==
    IF s # 0 /\ ss[s].rc = 1
    THEN << Event("signal_protocol_store_context_destroy", 0, s, ss[s].ctx) >>
         \o ReleaseCtx_teardown(cs, ss[s].ctx)
    ELSE <<>>

(* impl Drop for SessionBuilder: session_builder_free(self.raw), then the  *)
(* fields in the order they are declared: raw, _store_ctx, _ctx.           *)
SessionBuilder_teardown(sb, b, ss, cs) ==
    << Event("session_builder_free", b, sb._store_ctx, sb._ctx) >>
    \o ReleaseStore_teardown(ss, cs, sb._store_ctx)
    \o ReleaseCtx_teardown(ReleaseStore(ss, cs, sb._store_ctx).contexts, sb._ctx)

(* Context::new_store_context. codes = <<store_context_create,             *)
(* set_pre_key_store, set_signed_pre_key_store, set_session_store,         *)
(* set_identity_key_store>>.                                               *)
StoreCalls == <<"store_context_create", "set_pre_key_store",
                "set_signed_pre_key_store", "set_session_store",
                "set_identity_key_store">>

(* new_store_context with the `?` after set_signed_pre_key_store left out. *)
new_store_context_NoCheck3(codes) ==
    IF into_result(codes[1]).tag = "Err"
    THEN [res |-> into_result(codes[1]), created |-> FALSE,
          calls |-> SubSeq(StoreCalls, 1, 1)]
    ELSE IF into_result(codes[2]).tag = "Err"
    THEN [res |-> into_result(codes[2]), created |-> TRUE,
          calls |-> SubSeq(StoreCalls, 1, 2)]
    ELSE IF into_result(codes[4]).tag = "Err"
    THEN [res |-> into_result(codes[4]), created |-> TRUE,
          calls |-> SubSeq(StoreCalls, 1, 4)]
    ELSE IF into_result(codes[5]).tag = "Err"
    THEN [res |-> into_result(codes[5]), created |-> TRUE,
          calls |-> SubSeq(StoreCalls, 1, 5)]
    ELSE [res |-> Ok("StoreContext"), created |-> TRUE,
          calls |-> SubSeq(StoreCalls, 1, 5)]

new_store_context(codes) ==
    IF into_result(codes[1]).tag = "Err"
    THEN [res |-> into_result(codes[1]), created |-> FALSE,
          calls |-> SubSeq(StoreCalls, 1, 1)]
    ELSE IF into_result(codes[2]).tag = "Err"
    THEN [res |-> into_result(codes[2]), created |-> TRUE,
          calls |-> SubSeq(StoreCalls, 1, 2)]
    ELSE IF into_result(codes[3]).tag = "Err"
    THEN [res |-> into_result(codes[3]), created |-> TRUE,
          calls |-> SubSeq(StoreCalls, 1, 3)]
    ELSE IF into_result(codes[4]).tag = "Err"
    THEN [res |-> into_result(codes[4]), created |-> TRUE,
          calls |-> SubSeq(StoreCalls, 1, 4)]
    ELSE IF into_result(codes[5]).tag = "Err"
    THEN [res |-> into_result(codes[5]), created |-> TRUE,
          calls |-> SubSeq(StoreCalls, 1, 5)]
    ELSE [res |-> Ok("StoreContext"), created |-> TRUE,
          calls |-> SubSeq(StoreCalls, 1, 5)]

(* --------------------------- SessionBuilder --------------------------- *)
(* SessionBuilder::new keeping a bare pointer to the context instead of    *)
(* Rc::clone(&ctx.0).                                                      *)
SessionBuilder_new_NoCtxRc(c, s, code) ==
    [raw |-> NativeOut(code, "ptr"), _store_ctx |-> s, _ctx |-> 0,
     address |-> "dropped"]

(* SessionBuilder::new not keeping store_context.0.                        *)
SessionBuilder_new_NoStoreRc(c, s, code) ==
    [raw |-> NativeOut(code, "ptr"), _store_ctx |-> 0, _ctx |-> c,
     address |-> "dropped"]

(* SessionBuilder::new: the struct it returns. The return code of          *)
(* session_builder_create is not looked at; raw stays null on failure.     *)
(* `address` is taken by value, address.raw() is handed to the engine, and *)
(* no field keeps the Address: it is dropped when new returns.             *)
SessionBuilder_new(c, s, code) ==
    [raw |-> NativeOut(code, "ptr"), _store_ctx |-> s, _ctx |-> c,
     address |-> "dropped"]

(* session_builder_free(raw): frees the native builder; a null pointer    *)
(* names no native object.                                                 *)
session_builder_free(raw, native) == IF raw = "ptr" THEN "freed" ELSE native

(* SessionBuilder::process_pre_key_bundle returns () whatever the code.    *)
process_pre_key_bundle(code) == Ok("unit")

(* ------------------- key generation and signatures -------------------- *)
(* Each takes the code the native call returns and the pointer it left in  *)
(* the output parameter.                                                   *)
generate_identity_key_pair(code, out) ==
    IF into_result(code).tag = "Err"
    THEN [res |-> into_result(code), calls |-> <<"generate_identity_key_pair">>]
    ELSE [res |-> OkHandle("IdentityKeyPair", out),
          calls |-> <<"generate_identity_key_pair">>]

(* generate_key_pair with the `?` left out: the handle is built from       *)
(* whatever the pointer holds.                                             *)
generate_key_pair_Unchecked(code, out) ==
    [res |-> OkHandle("KeyPair", out), calls |-> <<"curve_generate_key_pair">>]

generate_key_pair(code, out) ==
    IF into_result(code).tag = "Err"
    THEN [res |-> into_result(code), calls |-> <<"curve_generate_key_pair">>]
    ELSE [res |-> OkHandle("KeyPair", out), calls |-> <<"curve_generate_key_pair">>]

calculate_signature(code, out) ==
    IF into_result(code).tag = "Err"
    THEN [res |-> into_result(code), calls |-> <<"curve_calculate_signature">>]
    ELSE [res |-> OkHandle("Buffer", out), calls |-> <<"curve_calculate_signature">>]

(* The id is an integer written through &mut id, no handle is made.        *)
generate_registration_id(code, out) ==
    IF into_result(code).tag = "Err"
    THEN [res |-> into_result(code), calls |-> <<"generate_registration_id">>]
    ELSE [res |-> OkHandle("u32", out), calls |-> <<"generate_registration_id">>]

generate_pre_keys(code, out) ==
    IF into_result(code).tag = "Err"
    THEN [res |-> into_result(code), calls |-> <<"generate_pre_keys">>]
    ELSE [res |-> OkHandle("PreKeyList", out), calls |-> <<"generate_pre_keys">>]

(* generate_signed_pre_key without the raw.is_null() test.                 *)
generate_signed_pre_key_NoNullTest(timestamp, code, out) ==
    IF timestamp < 0
    THEN [res |-> ErrMsg("SystemTimeError", 0), calls |-> <<>>]
    ELSE IF into_result(code).tag = "Err"
    THEN [res |-> into_result(code), calls |-> <<"generate_signed_pre_key">>]
    ELSE [res |-> OkHandle("SessionSignedPreKey", out),
          calls |-> <<"generate_signed_pre_key">>]

(* generate_pre_keys handing start + 1 to the engine.                      *)
generate_pre_keys_request_OffByOne(start, count) ==
    [start |-> start + 1, count |-> count]

(* generate_pre_keys: the start and count handed to                        *)
(* signal_protocol_key_helper_generate_pre_keys.                           *)
generate_pre_keys_request(start, count) == [start |-> start, count |-> count]

(* The engine's list for a request: count nodes, ids counting up from      *)
(* start.                                                                  *)
key_helper_generate_pre_keys(req) == [i \in 1..req.count |-> req.start + i - 1]

(* PreKeyList::from_raw(head): an iterator owning the list head.           *)
PreKeyList_from_raw(start, count, nodes) ==
    [made |-> TRUE, start |-> start, count |-> count, nodes |-> nodes,
     yielded |-> <<>>, exhausted |-> FALSE]

(* Iterator::next for PreKeyList: hands out the head node and moves to     *)
(* its successor; None once the list has been walked.                      *)
PreKeyList_next(l) ==
    IF l.nodes = <<>>
    THEN [l EXCEPT !.exhausted = TRUE]
    ELSE [l EXCEPT !.nodes = Tail(@), !.yielded = Append(@, Head(l.nodes))]

(* timestamp: whole seconds relative to UNIX_EPOCH, negative when earlier; *)
(* duration_since fails for those before the native call is made.          *)
generate_signed_pre_key(timestamp, code, out) ==
    IF timestamp < 0
    THEN [res |-> ErrMsg("SystemTimeError", 0), calls |-> <<>>]
    ELSE IF into_result(code).tag = "Err"
    THEN [res |-> into_result(code), calls |-> <<"generate_signed_pre_key">>]
    ELSE IF out = "null"
    THEN [res |-> ErrMsg("Unable to generate a signed pre key", 0),
          calls |-> <<"generate_signed_pre_key">>]
    ELSE [res |-> OkHandle("SessionSignedPreKey", out),
          calls |-> <<"generate_signed_pre_key">>]

(* PublicKey::decode_point *)
decode_point(code, out) ==
    IF into_result(code).tag = "Err"
    THEN [res |-> into_result(code), calls |-> <<"curve_decode_point">>]
    ELSE [res |-> OkHandle("PublicKey", out), calls |-> <<"curve_decode_point">>]

(* verify_signature testing `result != 0` where the code tests == 1.       *)
verify_signature_NonZero(result) ==
    IF result # 0 THEN Ok("unit")
    ELSE ErrMsg("Invalid signature", 0)

(* PublicKey::verify_signature: result is what curve_verify_signature      *)
(* returned.                                                               *)
verify_signature(result) ==
    IF result = 1 THEN Ok("unit")
    ELSE IF result = 0 THEN ErrMsg("Invalid signature", 0)
    ELSE IF from_error_code(result) THEN ErrInternal(result)
    ELSE ErrMsg("Unknown error code", result)

(* ---------------------------- lock callbacks -------------------------- *)
(* lock_function with try_lock in place of lock: it returns at once.       *)
lock_function_TryLock(locked) == [returns |-> TRUE, mux |-> TRUE]

(* lock_function: state.mux.lock() on a parking_lot RawMutex. It returns   *)
(* only once the mutex is free, and leaves it locked.                      *)
lock_function(locked) == [returns |-> ~locked, mux |-> TRUE]

(* unlock_function: state.mux.unlock() *)
unlock_function(locked) == FALSE

(* ------------------------- PublicKey ordering ------------------------- *)
(* The contents of a public key, as the engine holds them. *)
KeyData == [1..KeyLen -> 0..MaxByte]

(* ec_public_key_compare: a three-way comparison of the contents, negative *)
(* zero or positive, of any magnitude.                                     *)
RECURSIVE ec_public_key_compare(_, _)
ec_public_key_compare(key1, key2) ==
    IF key1 = <<>> THEN 0
    ELSE IF Head(key1) # Head(key2) THEN Head(key1) - Head(key2)
    ELSE ec_public_key_compare(Tail(key1), Tail(key2))

(* A cmp that expects the comparison to answer -1, 0 or 1. *)
cmp_UnitOnly(self, other) ==
    LET native == ec_public_key_compare(self, other)
    IN IF native = -1 THEN "Less" ELSE IF native = 1 THEN "Greater" ELSE "Equal"

(* impl Ord for PublicKey *)
cmp(self, other) ==
    LET native == ec_public_key_compare(self, other)
    IN IF native < 0 THEN "Less" ELSE IF native > 0 THEN "Greater" ELSE "Equal"

(* impl PartialEq for PublicKey *)
eq(self, other) == cmp(self, other) = "Equal"

(* impl PartialOrd for PublicKey *)
Some(v) == [some |-> TRUE, value |-> v]
partial_cmp(self, other) == Some(cmp(self, other))

(* Ordering::reverse *)
reverse(o) == IF o = "Less" THEN "Greater" ELSE IF o = "Greater" THEN "Less" ELSE o

(* --------------------------- object addresses ------------------------- *)
(* state: Pin<Box<State>>: the State is in its own heap allocation, which  *)
(* a move of the ContextInner leaves where it is.                          *)
state_addr(place) == "Box<State>"

(* crypto: CryptoProvider is stored inline, and vtable is a field of it:   *)
(* the table is part of the ContextInner value and moves with it.          *)
vtable_addr(place) == place

(* The implementation behind the vtable's user_data is pinned on the heap. *)
crypto_state_addr(place) == "Box<Crypto>"

(* The pointers ContextInner::new has handed to the engine after the       *)
(* calls that returned before the first failure.                           *)
Registered(codes) ==
    [user_data |-> state_addr("ContextInner::new"),
     vtable |-> IF codes[1] = 0 THEN vtable_addr("ContextInner::new")
                ELSE "none",
     crypto_user_data |-> IF codes[1] = 0
                          THEN crypto_state_addr("ContextInner::new")
                          ELSE "none"]

(* -------------------------- initial values ---------------------------- *)
NoCtx == [native |-> "none", destroys |-> 0, rc |-> 0, handle |-> FALSE]
LiveCtx == [native |-> "live", destroys |-> 0, rc |-> 1, handle |-> TRUE]
NoStore == [native |-> "none", destroys |-> 0, rc |-> 0, handles |-> 0,
            ctx |-> 0, fromCtx |-> 0]
NoBuilder == [st |-> "unborn", raw |-> "null", native |-> "none", frees |-> 0,
              _store_ctx |-> 0, _ctx |-> 0, fromCtx |-> 0, fromStore |-> 0,
              used |-> FALSE, address |-> "none"]
NoKey == [st |-> "unborn", kind |-> "none", ctx |-> 0]
NoLast == [op |-> "none", codes |-> <<>>, timestamp |-> 0, out |-> "null",
           res |-> Ok("unit"), calls |-> <<>>]
IdleThread == [ctx |-> 0, waiting |-> FALSE, held |-> 0]
NoList == [made |-> FALSE, start |-> 0, count |-> 0, nodes |-> <<>>,
           yielded |-> <<>>, exhausted |-> FALSE]
NoMem == [phase |-> "none", place |-> "none", moves |-> 0, used |-> FALSE,
          reg |-> [user_data |-> "none", vtable |-> "none",
                   crypto_user_data |-> "none"]]
LiveMem == [NoMem EXCEPT !.phase = "live", !.place = "Rc",
                         !.reg = Registered(<<0, 0, 0>>)]
NoCmp == [made |-> FALSE, a |-> <<>>, b |-> <<>>, c |-> <<>>,
          ab |-> "Equal", ba |-> "Equal", bc |-> "Equal", ac |-> "Equal",
          ab_again |-> "Equal", native_ab |-> 0, eq_ab |-> TRUE,
          partial_ab |-> Some("Equal")]

Lowest(S) == CHOOSE x \in S : \A y \in S : x <= y
FreeCtx == {c \in CtxIds : contexts[c].native = "none"}
FreeStore == {s \in StoreIds : stores[s].native = "none"}
FreeBuilder == {b \in BuilderIds : builders[b].st = "unborn"}
FreeKey == {k \in KeyIds : keys[k].st = "unborn"}

Init ==
    /\ contexts = [c \in CtxIds |-> NoCtx]
    /\ stores = [s \in StoreIds |-> NoStore]
    /\ builders = [b \in BuilderIds |-> NoBuilder]
    /\ keys = [k \in KeyIds |-> NoKey]
    /\ last = NoLast
    /\ mux = [c \in CtxIds |-> FALSE]
    /\ threads = [t \in ThreadIds |-> IdleThread]
    /\ preKeyList = NoList
    /\ mem = [c \in CtxIds |-> NoMem]
    /\ pk = NoCmp
    /\ teardown = <<>>

(* ------------------------- ownership actions -------------------------- *)
(* Context::new: Rc::new(ContextInner) on success; on a failure after      *)
(* signal_context_create succeeded the native context is not destroyed.    *)
Context_new(codes) ==
    /\ FreeCtx # {}
    /\ LET c == Lowest(FreeCtx)
           r == ContextInner_new(codes)
       IN contexts' =
            IF r.created
            THEN [contexts EXCEPT ![c] =
                    [native |-> "live", destroys |-> 0,
                     rc |-> IF r.res.tag = "Ok" THEN 1 ELSE 0,
                     handle |-> r.res.tag = "Ok"]]
            ELSE contexts
    /\ UNCHANGED <<stores, builders, keys, last, mux, threads, aux, teardown>>

(* drop(Context) *)
Context_drop(c) ==
    /\ contexts[c].handle
    /\ contexts' = ReleaseCtx([contexts EXCEPT ![c].handle = FALSE], c)
    /\ UNCHANGED <<stores, builders, keys, last, mux, threads, aux, teardown>>

(* Context::new_store_context; StoreContext::new(store_ctx, &self.0)       *)
(* keeps an Rc<ContextInner> in the new StoreContextInner.                 *)
Context_new_store_context(c, codes) ==
    /\ contexts[c].handle
    /\ FreeStore # {}
    /\ LET s == Lowest(FreeStore)
           r == new_store_context(codes)
           ok == r.res.tag = "Ok"
       IN /\ stores' =
               IF r.created
               THEN [stores EXCEPT ![s] =
                       [native |-> "live", destroys |-> 0,
                        rc |-> IF ok THEN 1 ELSE 0,
                        handles |-> IF ok THEN 1 ELSE 0,
                        ctx |-> IF ok THEN c ELSE 0,
                        fromCtx |-> IF ok THEN c ELSE 0]]
               ELSE stores
          /\ contexts' = IF ok THEN CloneCtx(contexts, c) ELSE contexts
    /\ UNCHANGED <<builders, keys, last, mux, threads, aux, teardown>>

(* StoreContext::clone: one more Rc<StoreContextInner>; at most MaxClones  *)
(* extra handles per store are made.                                       *)
StoreContext_clone(s) ==
    /\ stores[s].handles >= 1
    /\ stores[s].handles <= MaxClones
    /\ stores' = [stores EXCEPT ![s].handles = @ + 1, ![s].rc = @ + 1]
    /\ UNCHANGED <<contexts, builders, keys, last, mux, threads, aux, teardown>>

(* drop(StoreContext) *)
StoreContext_drop(s) ==
    /\ stores[s].handles >= 1
    /\ LET r == ReleaseStore([stores EXCEPT ![s].handles = @ - 1], contexts, s)
       IN /\ stores' = r.stores
          /\ contexts' = r.contexts
    /\ UNCHANGED <<builders, keys, last, mux, threads, aux, teardown>>

(* SessionBuilder::new(ctx, store_context, address): store_context is      *)
(* moved in; what the struct does not keep is dropped on return.           *)
SessionBuilder_new_call(c, s, code) ==
    /\ contexts[c].handle
    /\ stores[s].handles >= 1
    /\ FreeBuilder # {}
    /\ LET b == Lowest(FreeBuilder)
           sb == SessionBuilder_new(c, s, code)
           cs1 == CloneCtx(contexts, sb._ctx)
           ss1 == [stores EXCEPT ![s].handles = @ - 1]
           r == IF sb._store_ctx = s
                THEN [stores |-> ss1, contexts |-> cs1]
                ELSE ReleaseStore(ss1, cs1, s)
       IN /\ builders' = [builders EXCEPT ![b] =
                 [st |-> "alive", raw |-> sb.raw,
                  native |-> IF code = 0 THEN "live" ELSE "none",
                  frees |-> 0, _store_ctx |-> sb._store_ctx, _ctx |-> sb._ctx,
                  fromCtx |-> c, fromStore |-> s, used |-> FALSE,
                  address |-> sb.address]]
          /\ stores' = r.stores
          /\ contexts' = r.contexts
    /\ UNCHANGED <<keys, last, mux, threads, aux, teardown>>

(* SessionBuilder::process_pre_key_bundle *)
SessionBuilder_process(b, code) ==
    /\ builders[b].st = "alive"
    /\ process_pre_key_bundle(code).tag = "Ok"
    /\ builders' = [builders EXCEPT ![b].used = TRUE]
    /\ UNCHANGED <<contexts, stores, keys, last, mux, threads, aux, teardown>>

(* impl Drop for SessionBuilder: session_builder_free(self.raw), then the  *)
(* fields in declaration order: _store_ctx, _ctx.                          *)
SessionBuilder_drop(b) ==
    /\ builders[b].st = "alive"
    /\ LET r1 == ReleaseStore(stores, contexts, builders[b]._store_ctx)
           cs2 == ReleaseCtx(r1.contexts, builders[b]._ctx)
       IN /\ builders' = [builders EXCEPT ![b] =
                 [NoBuilder EXCEPT
                    !.st = "dropped",
                    !.raw = builders[b].raw,
                    !.native = session_builder_free(builders[b].raw, builders[b].native),
                    !.frees = IF builders[b].raw = "ptr" THEN 1 ELSE 0]]
          /\ stores' = r1.stores
          /\ contexts' = cs2
    /\ UNCHANGED <<keys, last, mux, threads, aux, teardown>>

(* ------------------------ key handle actions -------------------------- *)
(* A handle made through Context c: { raw } only, it keeps no              *)
(* Rc<ContextInner>.                                                       *)
NewKey(c, r) ==
    IF r.res.tag = "Ok"
    THEN [keys EXCEPT ![Lowest(FreeKey)] =
            [st |-> "alive", kind |-> r.res.value, ctx |-> c]]
    ELSE keys

Context_generate_identity_key_pair(c, code) ==
    /\ contexts[c].handle
    /\ FreeKey # {}
    /\ keys' = NewKey(c, generate_identity_key_pair(code, NativeOut(code, "ptr")))
    /\ UNCHANGED <<contexts, stores, builders, last, mux, threads, aux, teardown>>

Context_generate_key_pair(c, code) ==
    /\ contexts[c].handle
    /\ FreeKey # {}
    /\ keys' = NewKey(c, generate_key_pair(code, NativeOut(code, "ptr")))
    /\ UNCHANGED <<contexts, stores, builders, last, mux, threads, aux, teardown>>

Context_calculate_signature(c, code) ==
    /\ contexts[c].handle
    /\ FreeKey # {}
    /\ keys' = NewKey(c, calculate_signature(code, NativeOut(code, "ptr")))
    /\ UNCHANGED <<contexts, stores, builders, last, mux, threads, aux, teardown>>

Context_generate_pre_keys(c, code) ==
    /\ contexts[c].handle
    /\ FreeKey # {}
    /\ keys' = NewKey(c, generate_pre_keys(code, NativeOut(code, "ptr")))
    /\ UNCHANGED <<contexts, stores, builders, last, mux, threads, aux, teardown>>

Context_generate_signed_pre_key(c, code) ==
    /\ contexts[c].handle
    /\ FreeKey # {}
    /\ keys' = NewKey(c, generate_signed_pre_key(0, code, NativeOut(code, "ptr")))
    /\ UNCHANGED <<contexts, stores, builders, last, mux, threads, aux, teardown>>

PublicKey_decode_point(c, code) ==
    /\ contexts[c].handle
    /\ FreeKey # {}
    /\ keys' = NewKey(c, decode_point(code, NativeOut(code, "ptr")))
    /\ UNCHANGED <<contexts, stores, builders, last, mux, threads, aux, teardown>>

(* Dropping a handle frees its native object (Raw<T>'s destructor).        *)
Key_drop(k) ==
    /\ keys[k].st = "alive"
    /\ keys' = [keys EXCEPT ![k] = [NoKey EXCEPT !.st = "dropped"]]
    /\ UNCHANGED <<contexts, stores, builders, last, mux, threads, aux, teardown>>

(* --------------------- return values of the calls --------------------- *)
Returned(op, codes, ts, out, r) ==
    [op |-> op, codes |-> codes, timestamp |-> ts, out |-> out,
     res |-> r.res, calls |-> r.calls]

Call_ContextInner_new(codes) ==
    /\ last' = Returned("ContextInner::new", codes, 0, "null", ContextInner_new(codes))
    /\ UNCHANGED <<contexts, stores, builders, keys, mux, threads, aux, teardown>>

Call_new_store_context(codes) ==
    /\ last' = Returned("new_store_context", codes, 0, "null", new_store_context(codes))
    /\ UNCHANGED <<contexts, stores, builders, keys, mux, threads, aux, teardown>>

Call_generate_identity_key_pair(code) ==
    /\ last' = Returned("generate_identity_key_pair", <<code>>, 0, NativeOut(code, "ptr"),
                generate_identity_key_pair(code, NativeOut(code, "ptr")))
    /\ UNCHANGED <<contexts, stores, builders, keys, mux, threads, aux, teardown>>

Call_generate_key_pair(code) ==
    /\ last' = Returned("generate_key_pair", <<code>>, 0, NativeOut(code, "ptr"),
                generate_key_pair(code, NativeOut(code, "ptr")))
    /\ UNCHANGED <<contexts, stores, builders, keys, mux, threads, aux, teardown>>

Call_calculate_signature(code) ==
    /\ last' = Returned("calculate_signature", <<code>>, 0, NativeOut(code, "ptr"),
                calculate_signature(code, NativeOut(code, "ptr")))
    /\ UNCHANGED <<contexts, stores, builders, keys, mux, threads, aux, teardown>>

Call_generate_registration_id(code) ==
    /\ last' = Returned("generate_registration_id", <<code>>, 0, NativeOut(code, "ptr"),
                generate_registration_id(code, NativeOut(code, "ptr")))
    /\ UNCHANGED <<contexts, stores, builders, keys, mux, threads, aux, teardown>>

Call_generate_pre_keys(code) ==
    /\ last' = Returned("generate_pre_keys", <<code>>, 0, NativeOut(code, "ptr"),
                generate_pre_keys(code, NativeOut(code, "ptr")))
    /\ UNCHANGED <<contexts, stores, builders, keys, mux, threads, aux, teardown>>

(* The engine may report success and still leave the result null here.     *)
Call_generate_signed_pre_key(ts, code, out) ==
    /\ last' = Returned("generate_signed_pre_key", <<code>>, ts, NativeOut(code, out),
                generate_signed_pre_key(ts, code, NativeOut(code, out)))
    /\ UNCHANGED <<contexts, stores, builders, keys, mux, threads, aux, teardown>>

Call_decode_point(code) ==
    /\ last' = Returned("decode_point", <<code>>, 0, NativeOut(code, "ptr"),
                decode_point(code, NativeOut(code, "ptr")))
    /\ UNCHANGED <<contexts, stores, builders, keys, mux, threads, aux, teardown>>

Call_verify_signature(result) ==
    /\ last' = Returned("verify_signature", <<result>>, 0, "null",
                [res |-> verify_signature(result), calls |-> <<"curve_verify_signature">>])
    /\ UNCHANGED <<contexts, stores, builders, keys, mux, threads, aux, teardown>>

Call_SessionBuilder_new(code) ==
    /\ last' = Returned("SessionBuilder::new", <<code>>, 0, NativeOut(code, "ptr"),
                [res |-> OkHandle("SessionBuilder", SessionBuilder_new(1, 1, code).raw),
                 calls |-> <<"session_builder_create">>])
    /\ UNCHANGED <<contexts, stores, builders, keys, mux, threads, aux, teardown>>

Call_process_pre_key_bundle(code) ==
    /\ last' = Returned("process_pre_key_bundle", <<code>>, 0, "null",
                [res |-> process_pre_key_bundle(code),
                 calls |-> <<"session_builder_process_pre_key_bundle">>])
    /\ UNCHANGED <<contexts, stores, builders, keys, mux, threads, aux, teardown>>

(* -------------------------- pre-key lists ----------------------------- *)
(* Context::generate_pre_keys(start, count) *)
PreKeys_generate(start, count, code) ==
    /\ LET r == generate_pre_keys(code, NativeOut(code, "ptr"))
           req == generate_pre_keys_request(start, count)
       IN preKeyList' =
            IF r.res.tag = "Ok"
            THEN PreKeyList_from_raw(start, count, key_helper_generate_pre_keys(req))
            ELSE NoList
    /\ UNCHANGED <<contexts, stores, builders, keys, last, mux, threads,
                   mem, pk, teardown>>

(* One call of next() on the list. *)
PreKeys_next ==
    /\ preKeyList.made
    /\ preKeyList' = PreKeyList_next(preKeyList)
    /\ UNCHANGED <<contexts, stores, builders, keys, last, mux, threads,
                   mem, pk, teardown>>

(* --------------------------- lock actions ----------------------------- *)
(* A thread inside the engine on Context c calls lock_function; the call   *)
(* is pending until lock_function returns.                                 *)
Thread_lock_call(t, c) ==
    /\ contexts[c].native = "live"
    /\ ~threads[t].waiting
    /\ threads[t].ctx \in {0, c}
    /\ threads[t].held < MaxDepth
    /\ threads' = [threads EXCEPT ![t].ctx = c, ![t].waiting = TRUE]
    /\ UNCHANGED <<contexts, stores, builders, keys, last, mux, aux, teardown>>

Thread_lock_return(t) ==
    /\ threads[t].waiting
    /\ LET c == threads[t].ctx
           r == lock_function(mux[c])
       IN /\ r.returns
          /\ mux' = [mux EXCEPT ![c] = r.mux]
          /\ threads' = [threads EXCEPT ![t].waiting = FALSE, ![t].held = @ + 1]
    /\ UNCHANGED <<contexts, stores, builders, keys, last, aux, teardown>>

(* The engine calls unlock_function once for every lock_function that     *)
(* returned, innermost first.                                              *)
Thread_unlock(t) ==
    /\ threads[t].held >= 1
    /\ ~threads[t].waiting
    /\ LET c == threads[t].ctx
       IN /\ mux' = [mux EXCEPT ![c] = unlock_function(mux[c])]
          /\ threads' = [threads EXCEPT
                 ![t].held = @ - 1,
                 ![t].ctx = IF threads[t].held = 1 THEN 0 ELSE @]
    /\ UNCHANGED <<contexts, stores, builders, keys, last, aux, teardown>>

Next ==
    \/ \E codes \in OneFailure(3) : Context_new(codes)
    \/ \E c \in CtxIds : Context_drop(c)
    \/ \E c \in CtxIds, codes \in OneFailure(5) :
          Context_new_store_context(c, codes)
    \/ \E s \in StoreIds : StoreContext_clone(s)
    \/ \E s \in StoreIds : StoreContext_drop(s)
    \/ \E c \in CtxIds, s \in StoreIds, code \in LifecycleCodes :
          SessionBuilder_new_call(c, s, code)
    \/ \E b \in BuilderIds, code \in LifecycleCodes : SessionBuilder_process(b, code)
    \/ \E b \in BuilderIds : SessionBuilder_drop(b)

Spec == Init /\ [][Next]_vars

(* Key handles against the Contexts that made them. *)
NextKeys ==
    \/ \E codes \in OneFailure(3) : Context_new(codes)
    \/ \E c \in CtxIds : Context_drop(c)
    \/ \E c \in CtxIds, code \in LifecycleCodes :
          Context_generate_identity_key_pair(c, code)
    \/ \E c \in CtxIds, code \in LifecycleCodes : Context_generate_key_pair(c, code)
    \/ \E c \in CtxIds, code \in LifecycleCodes : Context_calculate_signature(c, code)
    \/ \E c \in CtxIds, code \in LifecycleCodes : Context_generate_pre_keys(c, code)
    \/ \E c \in CtxIds, code \in LifecycleCodes :
          Context_generate_signed_pre_key(c, code)
    \/ \E c \in CtxIds, code \in LifecycleCodes : PublicKey_decode_point(c, code)
    \/ \E k \in KeyIds : Key_drop(k)

SpecKeys == Init /\ [][NextKeys]_vars

(* Every Context constructed and held by the application. *)
InitLive ==
    /\ contexts = [c \in CtxIds |-> LiveCtx]
    /\ stores = [s \in StoreIds |-> NoStore]
    /\ builders = [b \in BuilderIds |-> NoBuilder]
    /\ keys = [k \in KeyIds |-> NoKey]
    /\ last = NoLast
    /\ mux = [c \in CtxIds |-> FALSE]
    /\ threads = [t \in ThreadIds |-> IdleThread]
    /\ preKeyList = NoList
    /\ mem = [c \in CtxIds |-> LiveMem]
    /\ pk = NoCmp
    /\ teardown = <<>>

(* The value each call returns, for every native outcome. *)
NextOps ==
    \/ \E codes \in [1..3 -> ReturnCodes] : Call_ContextInner_new(codes)
    \/ \E codes \in [1..5 -> ReturnCodes] : Call_new_store_context(codes)
    \/ \E code \in ReturnCodes : Call_generate_identity_key_pair(code)
    \/ \E code \in ReturnCodes : Call_generate_key_pair(code)
    \/ \E code \in ReturnCodes : Call_calculate_signature(code)
    \/ \E code \in ReturnCodes : Call_generate_registration_id(code)
    \/ \E code \in ReturnCodes : Call_generate_pre_keys(code)
    \/ \E ts \in Timestamps, code \in ReturnCodes, out \in Pointers :
          Call_generate_signed_pre_key(ts, code, out)
    \/ \E code \in ReturnCodes : Call_decode_point(code)
    \/ \E result \in VerifyCodes : Call_verify_signature(result)
    \/ \E code \in ReturnCodes : Call_SessionBuilder_new(code)
    \/ \E code \in ReturnCodes : Call_process_pre_key_bundle(code)

SpecOps == InitLive /\ [][NextOps]_vars

(* ContextInner::new up to its Ok(ContextInner { .. }): the State is boxed, *)
(* the three registrations are made, `?` returns at the first failure.     *)
Mem_ContextInner_new(c, codes) ==
    /\ mem[c].phase = "none"
    /\ mem' = [mem EXCEPT ![c] =
                 [NoMem EXCEPT !.phase = IF ContextInner_new(codes).res.tag = "Ok"
                                         THEN "built" ELSE "failed",
                               !.place = IF ContextInner_new(codes).res.tag = "Ok"
                                         THEN "ContextInner::new" ELSE "none",
                               !.reg = Registered(codes)]]
    /\ UNCHANGED <<contexts, stores, builders, keys, last, mux, threads,
                   preKeyList, pk, teardown>>

(* The ContextInner is returned by value to Context::new. *)
Mem_return(c) ==
    /\ mem[c].phase = "built"
    /\ mem' = [mem EXCEPT ![c].phase = "returned", ![c].place = "Context::new"]
    /\ UNCHANGED <<contexts, stores, builders, keys, last, mux, threads,
                   preKeyList, pk, teardown>>

(* Context(Rc::new(c)): the ContextInner is moved into the Rc allocation. *)
Mem_Rc_new(c) ==
    /\ mem[c].phase = "returned"
    /\ mem' = [mem EXCEPT ![c].phase = "live", ![c].place = "Rc"]
    /\ UNCHANGED <<contexts, stores, builders, keys, last, mux, threads,
                   preKeyList, pk, teardown>>

(* The application moves the Context value: only the Rc pointer moves. *)
Mem_Context_move(c) ==
    /\ mem[c].phase = "live"
    /\ mem[c].moves < MaxMoves
    /\ mem' = [mem EXCEPT ![c].moves = @ + 1]
    /\ UNCHANGED <<contexts, stores, builders, keys, last, mux, threads,
                   preKeyList, pk, teardown>>

(* The engine calls back with the user_data it was given. *)
Mem_engine_callback(c) ==
    /\ mem[c].phase = "live"
    /\ ~mem[c].used
    /\ mem' = [mem EXCEPT ![c].used = TRUE]
    /\ UNCHANGED <<contexts, stores, builders, keys, last, mux, threads,
                   preKeyList, pk, teardown>>

(* The last Rc<ContextInner> is dropped. *)
Mem_drop(c) ==
    /\ mem[c].phase = "live"
    /\ mem' = [mem EXCEPT ![c] = [NoMem EXCEPT !.phase = "dropped"]]
    /\ UNCHANGED <<contexts, stores, builders, keys, last, mux, threads,
                   preKeyList, pk, teardown>>

(* The three keys at hand compared with each other through the trait       *)
(* methods.                                                                *)
PublicKey_compare ==
    /\ ~pk.made
    /\ pk' = [made |-> TRUE, a |-> pk.a, b |-> pk.b, c |-> pk.c,
              ab |-> cmp(pk.a, pk.b), ba |-> cmp(pk.b, pk.a),
              bc |-> cmp(pk.b, pk.c), ac |-> cmp(pk.a, pk.c),
              ab_again |-> cmp(pk.a, pk.b),
              native_ab |-> ec_public_key_compare(pk.a, pk.b),
              eq_ab |-> eq(pk.a, pk.b), partial_ab |-> partial_cmp(pk.a, pk.b)]
    /\ UNCHANGED <<contexts, stores, builders, keys, last, mux, threads,
                   preKeyList, mem, teardown>>

(* The three drops again, each leaving in `teardown` what it tore down, in *)
(* the order it did.                                                       *)
Teardown_Context_drop(c) ==
    /\ contexts[c].handle
    /\ contexts' = ReleaseCtx([contexts EXCEPT ![c].handle = FALSE], c)
    /\ teardown' = ReleaseCtx_teardown(contexts, c)
    /\ UNCHANGED <<stores, builders, keys, last, mux, threads, aux>>

Teardown_StoreContext_drop(s) ==
    /\ stores[s].handles >= 1
    /\ LET r == ReleaseStore([stores EXCEPT ![s].handles = @ - 1], contexts, s)
       IN /\ stores' = r.stores
          /\ contexts' = r.contexts
    /\ teardown' = ReleaseStore_teardown(stores, contexts, s)
    /\ UNCHANGED <<builders, keys, last, mux, threads, aux>>

Teardown_SessionBuilder_drop(b) ==
    /\ builders[b].st = "alive"
    /\ LET r1 == ReleaseStore(stores, contexts, builders[b]._store_ctx)
           cs2 == ReleaseCtx(r1.contexts, builders[b]._ctx)
       IN /\ builders' = [builders EXCEPT ![b] =
                 [NoBuilder EXCEPT
                    !.st = "dropped",
                    !.raw = builders[b].raw,
                    !.native = session_builder_free(builders[b].raw, builders[b].native),
                    !.frees = IF builders[b].raw = "ptr" THEN 1 ELSE 0]]
          /\ stores' = r1.stores
          /\ contexts' = cs2
    /\ teardown' = SessionBuilder_teardown(builders[b], b, stores, contexts)
    /\ UNCHANGED <<keys, last, mux, threads, aux>>

(* Threads inside the engine taking and releasing the Context's lock. *)
NextLock ==
    \/ \E t \in ThreadIds, c \in CtxIds : Thread_lock_call(t, c)
    \/ \E t \in ThreadIds : Thread_lock_return(t)
    \/ \E t \in ThreadIds : Thread_unlock(t)

SpecLock == InitLive /\ [][NextLock]_vars

(* The same threads under fair scheduling: a lock_function call that can   *)
(* return again and again does return, and a thread that holds the lock    *)
(* and is not blocked goes on to its unlock_function.                      *)
SpecLockFair ==
    /\ InitLive
    /\ [][NextLock]_vars
    /\ \A t \in ThreadIds : SF_vars(Thread_lock_return(t))
    /\ \A t \in ThreadIds : WF_vars(Thread_unlock(t))

(* Pre-key lists generated and traversed. *)
NextPreKeys ==
    \/ \E start \in Starts, count \in Counts, code \in LifecycleCodes :
          PreKeys_generate(start, count, code)
    \/ PreKeys_next

SpecPreKeys == InitLive /\ [][NextPreKeys]_vars

(* Contexts constructed, moved and dropped, with the addresses involved. *)
NextMove ==
    \/ \E c \in CtxIds, codes \in [1..3 -> LifecycleCodes] :
          Mem_ContextInner_new(c, codes)
    \/ \E c \in CtxIds : Mem_return(c)
    \/ \E c \in CtxIds : Mem_Rc_new(c)
    \/ \E c \in CtxIds : Mem_Context_move(c)
    \/ \E c \in CtxIds : Mem_engine_callback(c)
    \/ \E c \in CtxIds : Mem_drop(c)

SpecMove == Init /\ [][NextMove]_vars

(* Any three PublicKey values, then compared. *)
InitOrd ==
    /\ contexts = [c \in CtxIds |-> LiveCtx]
    /\ stores = [s \in StoreIds |-> NoStore]
    /\ builders = [b \in BuilderIds |-> NoBuilder]
    /\ keys = [k \in KeyIds |-> NoKey]
    /\ last = NoLast
    /\ mux = [c \in CtxIds |-> FALSE]
    /\ threads = [t \in ThreadIds |-> IdleThread]
    /\ preKeyList = NoList
    /\ mem = [c \in CtxIds |-> LiveMem]
    /\ pk \in {[NoCmp EXCEPT !.a = a, !.b = b, !.c = c] :
                  a \in KeyData, b \in KeyData, c \in KeyData}
    /\ teardown = <<>>

NextOrd == PublicKey_compare

SpecOrd == InitOrd /\ [][NextOrd]_vars

(* Stores and builders made from live Contexts, and everything dropped in *)
(* any order, with the teardown of the latest drop on record.              *)
NextTeardown ==
    \/ \E c \in CtxIds : Teardown_Context_drop(c)
    \/ \E c \in CtxIds, codes \in OneFailure(5) :
          Context_new_store_context(c, codes)
    \/ \E s \in StoreIds : StoreContext_clone(s)
    \/ \E s \in StoreIds : Teardown_StoreContext_drop(s)
    \/ \E c \in CtxIds, s \in StoreIds, code \in LifecycleCodes :
          SessionBuilder_new_call(c, s, code)
    \/ \E b \in BuilderIds : Teardown_SessionBuilder_drop(b)

SpecTeardown == InitLive /\ [][NextTeardown]_vars

(* ============================== claims ================================ *)
CtxHeld(c) ==
    \/ contexts[c].handle
    \/ \E s \in StoreIds : stores[s].rc > 0 /\ stores[s].fromCtx = c
    \/ \E b \in BuilderIds : builders[b].st = "alive" /\ builders[b].fromCtx = c

StoreHeld(s) ==
    \/ stores[s].handles > 0
    \/ \E b \in BuilderIds : builders[b].st = "alive" /\ builders[b].fromStore = s

(* C1: the native engine context is never destroyed while the Context, a   *)
(* StoreContext made by its new_store_context or a SessionBuilder created  *)
(* with it is alive; signal_context_destroy has run only once none of      *)
(* them is left.                                                           *)
C1_ContextOutlivesHolders ==
    \A c \in CtxIds :
        /\ CtxHeld(c) => contexts[c].native = "live" /\ contexts[c].rc > 0
        /\ contexts[c].native = "destroyed" => ~CtxHeld(c)

(* The Context value is gone and only a SessionBuilder, built with a       *)
(* StoreContext of another Context, still holds the engine context.        *)
C1_Witness ==
    \E c \in CtxIds, b \in BuilderIds :
        /\ ~contexts[c].handle
        /\ builders[b].st = "alive" /\ builders[b].fromCtx = c
        /\ stores[builders[b].fromStore].fromCtx # c
        /\ contexts[c].native = "live"

(* C2: the native engine context is never destroyed while a key or buffer  *)
(* handle produced through that Context is alive.                          *)
C2_ContextOutlivesKeys ==
    \A k \in KeyIds :
        keys[k].st = "alive" => contexts[keys[k].ctx].native = "live"

(* C3: the native store context is never destroyed while a SessionBuilder  *)
(* built from it is alive, and is destroyed only once every holder is      *)
(* gone.                                                                   *)
C3_StoreOutlivesBuilders ==
    \A s \in StoreIds :
        /\ StoreHeld(s) => stores[s].native = "live" /\ stores[s].rc > 0
        /\ stores[s].native = "destroyed" => ~StoreHeld(s)

(* The application holds no StoreContext any more; a SessionBuilder alone  *)
(* keeps the native store context.                                         *)
C3_Witness ==
    \E b \in BuilderIds :
        /\ builders[b].st = "alive"
        /\ stores[builders[b].fromStore].handles = 0
        /\ stores[builders[b].fromStore].native = "live"

AllDropped ==
    /\ \A c \in CtxIds : ~contexts[c].handle /\ contexts[c].rc = 0
    /\ \A s \in StoreIds : stores[s].handles = 0 /\ stores[s].rc = 0
    /\ \A b \in BuilderIds : builders[b].st # "alive"

(* C4: every native object the engine allocated has had its destroy/free   *)
(* called exactly once by the time all wrapper values are dropped, and     *)
(* never twice, also when a later step of its constructor failed.          *)
C4_ExactlyOneDestroy ==
    /\ \A c \in CtxIds : contexts[c].destroys <= 1
    /\ \A s \in StoreIds : stores[s].destroys <= 1
    /\ \A b \in BuilderIds : builders[b].frees <= 1
    /\ AllDropped =>
          /\ \A c \in CtxIds :
                contexts[c].native # "none" => contexts[c].destroys = 1
          /\ \A s \in StoreIds :
                stores[s].native # "none" => stores[s].destroys = 1
          /\ \A b \in BuilderIds :
                builders[b].native # "none" => builders[b].frees = 1

FirstFailure(codes) ==
    IF \E i \in DOMAIN codes : codes[i] # 0
    THEN Lowest({i \in DOMAIN codes : codes[i] # 0})
    ELSE 0

(* C5: new_store_context makes the calls create, pre-key,                  *)
(* signed-pre-key, session, identity-key in that order up to the first     *)
(* one that returns a non-zero code, returns that code as the error and    *)
(* no StoreContext; it returns a StoreContext only when all five           *)
(* succeeded.                                                              *)
C5_FirstFailureAborts ==
    last.op = "new_store_context" =>
        LET k == FirstFailure(last.codes)
        IN IF k = 0
           THEN /\ last.res.tag = "Ok" /\ last.res.value = "StoreContext"
                /\ last.calls = StoreCalls
           ELSE /\ last.res.tag = "Err" /\ last.res.code = last.codes[k]
                /\ last.res.value = "none"
                /\ last.calls = SubSeq(StoreCalls, 1, k)

(* The signed-pre-key registration fails, and a later one would fail with  *)
(* another code.                                                           *)
C5_Witness ==
    /\ last.op = "new_store_context"
    /\ FirstFailure(last.codes) = 3
    /\ last.codes[4] # 0 /\ last.codes[4] # last.codes[3]
    /\ last.res.tag = "Err"

(* C6: a non-zero code from session_builder_create is seen by the caller   *)
(* of SessionBuilder::new, so no SessionBuilder whose native creation      *)
(* failed is held or used for process_pre_key_bundle.                      *)
C6_NoSilentFailure ==
    \A b \in BuilderIds :
        builders[b].st = "alive" => builders[b].raw = "ptr"

(* C7: at most one thread at a time is between a return of lock_function   *)
(* and its matching unlock_function on one Context.                        *)
C7_MutualExclusion ==
    \A c \in CtxIds :
        /\ Cardinality({t \in ThreadIds :
                          threads[t].ctx = c /\ threads[t].held > 0}) <= 1
        /\ \A t \in ThreadIds : threads[t].ctx = c => threads[t].held <= 1

(* One thread is inside, another is blocked in lock_function on the same   *)
(* Context.                                                                *)
C7_Witness ==
    \E t1, t2 \in ThreadIds :
        /\ t1 # t2
        /\ threads[t1].ctx = threads[t2].ctx
        /\ threads[t1].held = 1
        /\ threads[t2].waiting /\ threads[t2].held = 0

(* C8: verify_signature succeeds exactly for code 1, reports "Invalid      *)
(* signature" exactly for code 0 and never as an internal error, and       *)
(* reports every other code as an internal error or an unknown-code error  *)
(* carrying the code.                                                      *)
C8_VerifyOutcomes ==
    last.op = "verify_signature" =>
        LET code == last.codes[1]
        IN /\ last.res.tag = "Ok" <=> code = 1
           /\ last.res.err = "Invalid signature" <=> code = 0
           /\ code \notin {0, 1} =>
                 /\ last.res.err \in {"InternalError", "Unknown error code"}
                 /\ last.res.code = code

C8_Witness ==
    /\ last.op = "verify_signature"
    /\ last.codes[1] = 0
    /\ last.res.tag = "Err" /\ last.res.err = "Invalid signature"

(* C9: generate_signed_pre_key returns a key iff the timestamp is not      *)
(* before the epoch, the code is zero and the result is non-null; an       *)
(* earlier timestamp fails before the native call; zero with null is a     *)
(* constructed error, not an internal one; no error builds a handle.       *)
C9_SignedPreKeyOutcomes ==
    last.op = "generate_signed_pre_key" =>
        LET code == last.codes[1]
        IN /\ last.res.tag = "Ok" <=>
                 (last.timestamp >= 0 /\ code = 0 /\ last.out = "ptr")
           /\ last.timestamp < 0 => last.calls = <<>>
           /\ (last.timestamp >= 0 /\ code = 0 /\ last.out = "null") =>
                 /\ last.res.tag = "Err"
                 /\ last.res.err \notin {"InternalError", "SystemTimeError"}
           /\ last.res.tag = "Err" => last.res.raw = "none"
           /\ last.res.tag = "Ok" =>
                 last.res.raw = "ptr" /\ last.res.value = "SessionSignedPreKey"

C9_Witness ==
    /\ last.op = "generate_signed_pre_key"
    /\ last.timestamp >= 0 /\ last.codes[1] = 0 /\ last.out = "null"
    /\ last.res.tag = "Err"

KindOf ==
    [generate_identity_key_pair |-> "IdentityKeyPair",
     generate_key_pair |-> "KeyPair",
     calculate_signature |-> "Buffer",
     generate_registration_id |-> "u32",
     generate_pre_keys |-> "PreKeyList"]

(* C10: generate_identity_key_pair, generate_key_pair,                     *)
(* calculate_signature, generate_registration_id and generate_pre_keys     *)
(* return an error exactly when the native code is non-zero, build no      *)
(* handle then, and return the value built from the output otherwise.      *)
C10_ErrorIffNonZero ==
    last.op \in DOMAIN KindOf =>
        LET code == last.codes[1]
        IN /\ last.res.tag = "Err" <=> code # 0
           /\ code # 0 =>
                 /\ last.res.raw = "none" /\ last.res.value = "none"
                 /\ last.res.code = code
           /\ code = 0 =>
                 /\ last.res.tag = "Ok"
                 /\ last.res.value = KindOf[last.op]
                 /\ last.res.raw = last.out

C10_Witness ==
    /\ last.op = "generate_key_pair"
    /\ last.codes[1] # 0
    /\ last.res.tag = "Err" /\ last.res.raw = "none"

(* C11: generate_pre_keys(start, count) yields exactly count records with  *)
(* ids start, start+1, ..., start+count-1 in that order, and nothing more  *)
(* once it has been walked to its end.                                     *)
C11_PreKeyIds ==
    preKeyList.made =>
        /\ Len(preKeyList.yielded) <= preKeyList.count
        /\ \A i \in 1..Len(preKeyList.yielded) :
              preKeyList.yielded[i] = preKeyList.start + i - 1
        /\ preKeyList.nodes = <<>> <=> Len(preKeyList.yielded) = preKeyList.count
        /\ preKeyList.exhausted => Len(preKeyList.yielded) = preKeyList.count

(* A list of several keys from a non-zero start, walked to its end.        *)
C11_Witness ==
    /\ preKeyList.made
    /\ preKeyList.start = 100 /\ preKeyList.count >= 2
    /\ preKeyList.exhausted
    /\ preKeyList.yielded[preKeyList.count] = 100 + preKeyList.count - 1
(* C12: while a Context is alive, every address registered with the engine *)
(* (the lock State, the crypto provider state, the crypto vtable) is still *)
(* the address of the live object: no move has left one behind.            *)
C12_RegisteredAddressesStable ==
    \A c \in CtxIds :
        mem[c].phase = "live" =>
            /\ mem[c].reg.user_data = state_addr(mem[c].place)
            /\ mem[c].reg.crypto_user_data = crypto_state_addr(mem[c].place)
            /\ mem[c].reg.vtable = vtable_addr(mem[c].place)

C14_AddressAliveWhenUsed ==
    \A b \in BuilderIds :
        (builders[b].st = "alive" /\ builders[b].used) =>
            builders[b].address = "alive"

(* C15: under fair scheduling every lock_function call eventually       *)
(* returns, a call by the thread that already holds the lock included.     *)
C15_LockReturns ==
    \A t \in ThreadIds : threads[t].waiting ~> ~threads[t].waiting

(* In the latest drop every op1 stands before every op2 on the same store  *)
(* context (of = "s") or the same Context (of = "c").                      *)
Before(op1, op2, of) ==
    \A i, j \in 1..Len(teardown) :
        (teardown[i].op = op1 /\ teardown[j].op = op2
            /\ teardown[i][of] # 0 /\ teardown[i][of] = teardown[j][of]) => i < j

(* C16: a native builder is freed before the native store context it was   *)
(* built from is destroyed, and that before the engine context is          *)
(* destroyed; the lock State and the crypto provider are released only     *)
(* after signal_context_destroy; and while a builder is alive, or a store   *)
(* context is held, what it was built from has not been destroyed.         *)
C16_TeardownOrder ==
    /\ Before("session_builder_free", "signal_protocol_store_context_destroy", "s")
    /\ Before("session_builder_free", "signal_context_destroy", "c")
    /\ Before("signal_protocol_store_context_destroy", "signal_context_destroy", "c")
    /\ Before("signal_context_destroy", "drop crypto", "c")
    /\ Before("signal_context_destroy", "drop state", "c")
    /\ \A j \in 1..Len(teardown) :
          teardown[j].op \in {"drop crypto", "drop state"} =>
              \E i \in 1..(j - 1) :
                  /\ teardown[i].op = "signal_context_destroy"
                  /\ teardown[i].c = teardown[j].c
    /\ \A b \in BuilderIds :
          builders[b].st = "alive" =>
              /\ stores[builders[b]._store_ctx].destroys = 0
              /\ contexts[builders[b]._ctx].destroys = 0
    /\ \A s \in StoreIds :
          stores[s].rc > 0 => contexts[stores[s].ctx].destroys = 0

(* A builder that was the last holder of its store context and of its      *)
(* Context is dropped: one drop tears all three down.                      *)
C16_Witness ==
    /\ Len(teardown) >= 5
    /\ teardown[1].op = "session_builder_free"
    /\ teardown[2].op = "signal_protocol_store_context_destroy"
    /\ teardown[2].s = teardown[1].s
    /\ teardown[3].op = "signal_context_destroy"
    /\ teardown[3].c = teardown[1].c
    /\ teardown[4].op = "drop crypto"
    /\ teardown[5].op = "drop state"

====
